---------------------------- MODULE Spec2Model ----------------------------
(***************************************************************************)
(* The pan/pinch transform pipeline of react-native-pan-pinch.              *)
(*                                                                         *)
(* src/src/PanPinch.js builds a react-native-reanimated expression graph:   *)
(* two gesture recognizers write the gesture states and the in-flight       *)
(* deltas into graph-held Values, and every delivered event is followed by  *)
(* one evaluation of the three nodes handed to the children (animatedLeft,  *)
(* animatedTop, animatedZoom).  The model keeps the Values, the cached      *)
(* values of the nodes and the React state of the component.                *)
(*                                                                         *)
(* Numbers are JavaScript doubles in the code.  They are modelled as exact  *)
(* extended rationals <<n, d>> in lowest terms with d >= 0:                 *)
(*   d > 0          the rational n/d                                        *)
(*   <<1,0>>, <<-1,0>>   +Infinity, -Infinity                               *)
(*   <<0,0>>        NaN (also what an unevaluated node holds)               *)
(* and the one irrational shape the code can produce, the result of         *)
(* pow(r, 0.25) inside bounce, as a 6-tuple <<bn,bd, sn,sd, rn,rd>> that    *)
(* stands for  bn/bd + (sn/sd) * (rn/rd)^(1/4)  with rn/rd not a fourth     *)
(* power of a rational.  The oldest revision raises to the power 1/1.3      *)
(* instead; that result carries a seventh element, 13, and stands for       *)
(* bn/bd + (sn/sd) * (rn/rd)^(10/13).                                       *)
(***************************************************************************)
EXTENDS Integers, Sequences, FiniteSets, TLC

VARIABLES
    state,               \* this.state: containerDimensions, contentDimensions, zoomRange
    mounted,             \* FALSE once getDerivedStateFromProps has thrown
    previousTransforms,  \* Values x, y, zoom: committed transform
    currentTransforms,   \* Values x, y, zoom: in-flight delta
    gestureStates,       \* Values pan, pinch: last state reported by the host
    adjusted,            \* cached values of the nodes adjustedXMin .. adjustedYMax
    animatedLeft,        \* cached value of resultingXTranslation
    animatedTop,         \* cached value of resultingYTranslation
    animatedZoom,        \* cached value of resultingZoom
    arguments,           \* a helper function called on its own: its name and arguments
    returned             \* ... and what it returned (<<>> before the call)

vars == <<state, mounted, previousTransforms, currentTransforms, gestureStates,
          adjusted, animatedLeft, animatedTop, animatedZoom, arguments, returned>>

----------------------------------------------------------------------------
\* Numbers

Abs(i) == IF i < 0 THEN -i ELSE i

Sign(i) == IF i < 0 THEN -1 ELSE IF i > 0 THEN 1 ELSE 0

RECURSIVE Gcd(_, _)
Gcd(a, b) == IF b = 0 THEN a ELSE Gcd(b, a % b)

\* The number n/d, in lowest terms; d = 0 gives an infinity or NaN.
Rat(n, d) ==
    IF d = 0 THEN <<Sign(n), 0>>
    ELSE LET g == Gcd(Abs(n), Abs(d))
             s == Sign(d)
         IN  <<(s * n) \div g, (s * d) \div g>>

Int2Num(i) == <<i, 1>>

NaN == <<0, 0>>

IsNaN(a) == a = NaN

IsRat(a) == Len(a) = 2 /\ a[2] > 0

IsInf(a) == Len(a) = 2 /\ a[2] = 0 /\ a[1] # 0

IsRoot(a) == Len(a) >= 6

Zero == Int2Num(0)

One == Int2Num(1)

Neg(a) == IF IsRoot(a) THEN [a EXCEPT ![1] = -a[1], ![3] = -a[3]] ELSE <<-a[1], a[2]>>

\* Animated.add on doubles.  A root-form operand keeps its irrational part.
add(a, b) ==
    IF IsRat(a) /\ IsRat(b) THEN Rat(a[1] * b[2] + b[1] * a[2], a[2] * b[2])
    ELSE IF IsNaN(a) \/ IsNaN(b) THEN NaN
    ELSE IF IsInf(a) THEN (IF IsInf(b) /\ b[1] # a[1] THEN NaN ELSE a)
    ELSE IF IsInf(b) THEN b
    ELSE IF IsRoot(a) THEN
        LET base == Rat(a[1] * b[2] + b[1] * a[2], a[2] * b[2])
        IN  [a EXCEPT ![1] = base[1], ![2] = base[2]]
    ELSE IF IsRoot(b) THEN
        LET base == Rat(a[1] * b[2] + b[1] * a[2], a[2] * b[2])
        IN  [b EXCEPT ![1] = base[1], ![2] = base[2]]
    ELSE Rat(a[1] * b[2] + b[1] * a[2], a[2] * b[2])

\* Animated.sub
sub(a, b) == add(a, Neg(b))

\* The product of a rational or infinite q and a root form.
ScaleRoot(q, root) ==
    IF IsInf(q) THEN <<q[1] * Sign(root[3]), 0>>
    ELSE IF q[1] = 0 THEN Zero
    ELSE LET base  == Rat(q[1] * root[1], q[2] * root[2])
             scale == Rat(q[1] * root[3], q[2] * root[4])
         IN  [root EXCEPT ![1] = base[1], ![2] = base[2], ![3] = scale[1], ![4] = scale[2]]

\* Animated.multiply on doubles (0 * Infinity is NaN).
multiply(a, b) ==
    IF IsRat(a) /\ IsRat(b) THEN Rat(a[1] * b[1], a[2] * b[2])
    ELSE IF IsNaN(a) \/ IsNaN(b) THEN NaN
    ELSE IF IsRoot(b) THEN ScaleRoot(a, b)
    ELSE IF IsRoot(a) THEN ScaleRoot(b, a)
    ELSE Rat(a[1] * b[1], a[2] * b[2])

\* Animated.divide on doubles: x / 0 is an infinity, 0 / 0 is NaN.
divide(a, b) == multiply(a, Rat(b[2], b[1]))

\* The fourth power of a rational.
Pow4(q) == Rat(q[1] * q[1] * q[1] * q[1], q[2] * q[2] * q[2] * q[2])

\* a < b for rationals and infinities.
PlainLess(a, b) ==
    IF a[2] = 0 /\ b[2] = 0 THEN a[1] < b[1] ELSE a[1] * b[2] < b[1] * a[2]

\* root < q and root > q for a fourth-root form root = base + scale * rho,
\* rho = r^(1/4) > 0 irrational, and a rational or infinite q: with
\* t = (q - base) / scale, rho < t iff t > 0 and r < t^4.
RootBelow(root, q) ==
    IF IsInf(q) THEN q[1] > 0
    ELSE LET t == Rat((q[1] * root[2] - root[1] * q[2]) * root[4], q[2] * root[2] * root[3])
         IN  IF root[3] > 0
             THEN t[1] > 0 /\ PlainLess(<<root[5], root[6]>>, Pow4(t))
             ELSE t[1] <= 0 \/ PlainLess(Pow4(t), <<root[5], root[6]>>)

RootAbove(root, q) ==
    IF IsInf(q) THEN q[1] < 0
    ELSE LET t == Rat((q[1] * root[2] - root[1] * q[2]) * root[4], q[2] * root[2] * root[3])
         IN  IF root[3] > 0
             THEN t[1] <= 0 \/ PlainLess(Pow4(t), <<root[5], root[6]>>)
             ELSE t[1] > 0 /\ PlainLess(<<root[5], root[6]>>, Pow4(t))

\* a < b on doubles: FALSE when either side is NaN.  (Two root forms are
\* never compared with each other.)
lessThan(a, b) ==
    IF IsRat(a) /\ IsRat(b) THEN a[1] * b[2] < b[1] * a[2]
    ELSE IF IsNaN(a) \/ IsNaN(b) THEN FALSE
    ELSE IF IsRoot(a) THEN RootBelow(a, b)
    ELSE IF IsRoot(b) THEN RootAbove(b, a)
    ELSE PlainLess(a, b)

\* Animated.greaterThan
greaterThan(a, b) == lessThan(b, a)

\* Animated.greaterOrEq
greaterOrEq(a, b) == ~IsNaN(a) /\ ~IsNaN(b) /\ ~lessThan(a, b)

lessOrEq(a, b) == greaterOrEq(b, a)

\* Animated.min (Math.min: NaN when either argument is NaN).
min(a, b) == IF IsNaN(a) \/ IsNaN(b) THEN NaN ELSE IF lessThan(b, a) THEN b ELSE a

\* Animated.max (Math.max)
max(a, b) == IF IsNaN(a) \/ IsNaN(b) THEN NaN ELSE IF lessThan(a, b) THEN b ELSE a

\* The k >= from with k^4 = n, or -1 when n is no fourth power.
RECURSIVE Root4From(_, _)
Root4From(n, from) ==
    IF from * from * from * from > n THEN -1
    ELSE IF from * from * from * from = n THEN from
    ELSE Root4From(n, from + 1)

\* A variant of pow025 with the exponent 1.
powOne(r) == r

\* Animated.pow(r, 0.25): exact when r is the fourth power of a rational, the
\* root form <<0,1, 1,1, rn,rd>> otherwise; NaN for a negative base.
pow025(r) ==
    IF IsNaN(r) THEN NaN
    ELSE IF r[1] < 0 THEN NaN
    ELSE IF r[2] = 0 THEN r
    ELSE LET rn == Root4From(r[1], 0)
             rd == Root4From(r[2], 1)
         IN  IF rn >= 0 /\ rd >= 0 THEN Rat(rn, rd)
             ELSE <<0, 1, 1, 1, r[1], r[2]>>

\* Animated.pow(r, divide(1, 1.3)): exact for 0 and 1, the form
\* <<0,1, 1,1, rn,rd, 13>> otherwise; NaN for a negative base.
powOneOver13(r) ==
    IF IsNaN(r) THEN NaN
    ELSE IF r[1] < 0 THEN NaN
    ELSE IF r[2] = 0 \/ r = Zero \/ r = One THEN r
    ELSE <<0, 1, 1, 1, r[1], r[2], 13>>

\* array[i] of JavaScript (0-based); a missing element is undefined, which the
\* graph's arithmetic reads as NaN.
At(array, i) == IF (i + 1) \in DOMAIN array THEN array[i + 1] ELSE NaN

----------------------------------------------------------------------------
\* The states a gesture recognizer reports (State of the gesture handler
\* library) and the value the gesture-state Values are constructed with.

StateFAILED == 1

StateBEGAN == 2

StateCANCELLED == 3

StateACTIVE == 4

StateEND == 5

NotStarted == -1

HostStates == {StateBEGAN, StateACTIVE, StateEND, StateCANCELLED, StateFAILED}

----------------------------------------------------------------------------
\* The pure parts of the graph

\* operation(a, b) for the two operations updateTranslation is used with.
\* Variants of the operation: one that drops the committed value, one that
\* adds whatever the operation is.
ApplyIgnoringPrevious(operation, a, b) == b

ApplyAlwaysAdd(operation, a, b) == add(a, b)

Apply(operation, a, b) == IF operation = "multiply" THEN multiply(a, b) ELSE add(a, b)

\* A variant of cap that limits the value from above only.
capUpperOnly(minValue, maxValue, value) == min(maxValue, value)

cap(minValue, maxValue, value) == min(maxValue, max(minValue, value))

\* A variant of bounce that eases every value above minValue.
bounceAboveMin(minValue, maxValue, value) ==
    LET boundaryDiff == sub(maxValue, minValue)
        exceedsHighRelatively == divide(sub(value, minValue), boundaryDiff)
    IN  IF greaterThan(sub(value, minValue), Zero)
        THEN add(multiply(boundaryDiff, pow025(exceedsHighRelatively)), minValue)
        ELSE value

\* The relative-overshoot bounce (disabled in src/src/PanPinch.js, where it is
\* commented out; in use in the earlier revision).  cond evaluates only the
\* branch it takes.
bounce(minValue, maxValue, value) ==
    LET boundaryDiff == sub(maxValue, minValue)
        exceedsHighRelatively == divide(sub(value, minValue), boundaryDiff)
        exceedsLowRelatively == divide(sub(maxValue, value), boundaryDiff)
        exceedsHigh == sub(value, maxValue)
        exceedsLow == sub(minValue, value)
    IN  IF greaterThan(exceedsHigh, Zero)
        THEN add(multiply(boundaryDiff, pow025(exceedsHighRelatively)), minValue)
        ELSE IF greaterThan(exceedsLow, Zero)
        THEN sub(maxValue, multiply(boundaryDiff, pow025(exceedsLowRelatively)))
        ELSE value

\* bounce of the oldest revision: the overshoot itself, raised to the power
\* 1/1.3, is put beyond the violated bound; no easing for a multiplication.
bounce_part_001(minValue, maxValue, value, operation) ==
    IF operation = "multiply" THEN value
    ELSE LET exceedsHigh == sub(value, maxValue)
             exceedsLow == sub(minValue, value)
         IN  IF greaterThan(exceedsHigh, Zero)
             THEN Apply(operation, maxValue, powOneOver13(exceedsHigh))
             ELSE IF greaterThan(exceedsLow, Zero)
             THEN Apply(operation, minValue, multiply(powOneOver13(exceedsLow), Int2Num(-1)))
             ELSE value

\* Variants of updateTranslation: one that commits the combined value as it
\* is, without cap, and one that commits in every gesture state.
updateTranslationUncapped(previousTranslation, currentTranslation, gestureState, boundaries, operation, defaultValue) ==
    IF gestureState = StateEND
    THEN [previous |-> Apply(operation, previousTranslation, currentTranslation),
          current  |-> defaultValue,
          result   |-> Apply(operation, previousTranslation, currentTranslation)]
    ELSE [previous |-> previousTranslation,
          current  |-> currentTranslation,
          result   |-> cap(At(boundaries, 0), At(boundaries, 1),
                           Apply(operation, previousTranslation, currentTranslation))]

updateTranslationAlwaysCommits(previousTranslation, currentTranslation, gestureState, boundaries, operation, defaultValue) ==
    [previous |-> cap(At(boundaries, 0), At(boundaries, 1),
                      Apply(operation, previousTranslation, currentTranslation)),
     current  |-> defaultValue,
     result   |-> cap(At(boundaries, 0), At(boundaries, 1),
                      Apply(operation, previousTranslation, currentTranslation))]

\* A variant of updateTranslation whose END branch commits the previous
\* alone and drops what current holds.
updateTranslationDropsCurrent(previousTranslation, currentTranslation, gestureState, boundaries, operation, defaultValue) ==
    IF gestureState = StateEND
    THEN LET committed == cap(At(boundaries, 0), At(boundaries, 1), previousTranslation)
         IN  [previous |-> committed, current |-> defaultValue, result |-> committed]
    ELSE [previous |-> previousTranslation,
          current  |-> currentTranslation,
          result   |-> cap(At(boundaries, 0), At(boundaries, 1),
                           Apply(operation, previousTranslation, currentTranslation))]

\* One evaluation of the node updateTranslation builds: the Values it leaves
\* behind and the value of the node.
updateTranslation(previousTranslation, currentTranslation, gestureState, boundaries, operation, defaultValue) ==
    IF gestureState = StateEND
    THEN LET committed == cap(At(boundaries, 0), At(boundaries, 1),
                              Apply(operation, previousTranslation, currentTranslation))
         IN  [previous |-> committed, current |-> defaultValue, result |-> committed]
    ELSE [previous |-> previousTranslation,
          current  |-> currentTranslation,
          result   |-> cap(At(boundaries, 0), At(boundaries, 1),
                           Apply(operation, previousTranslation, currentTranslation))]

\* A variant of getAdjustedBounds that moves the edge by the whole extent.
getAdjustedBoundsWholeExtent(originalValue, zoom, contentWidth, operation) ==
    IF operation = "sub"
    THEN sub(originalValue, multiply(sub(zoom, One), contentWidth))
    ELSE add(originalValue, multiply(sub(zoom, One), contentWidth))

getAdjustedBounds(originalValue, zoom, contentWidth, operation) ==
    LET delta == multiply(sub(zoom, One), divide(contentWidth, Int2Num(2)))
    IN  IF operation = "sub" THEN sub(originalValue, delta) ELSE add(originalValue, delta)

\* xRangeMin / yRangeMin of render, for one axis.
\* A variant of rangeMin that is the difference in both cases.
rangeMinAlwaysDifference(containerExtent, contentExtent) ==
    sub(containerExtent, contentExtent)

\* xRangeMin / yRangeMin of render, for one axis.
rangeMin(containerExtent, contentExtent) ==
    IF greaterOrEq(containerExtent, contentExtent) THEN Zero
    ELSE sub(containerExtent, contentExtent)

\* xRangeMax / yRangeMax of render, for one axis.
rangeMax(containerExtent, contentExtent) ==
    IF greaterOrEq(containerExtent, contentExtent) THEN sub(containerExtent, contentExtent)
    ELSE Zero

\* A JavaScript number used as a condition.
Truthy(a) == ~IsNaN(a) /\ a # Zero

\* A variant of range_part_002 without the comparison.
range_part_002FromZero(containerExtent, contentExtent) ==
    <<Zero, sub(containerExtent, contentExtent)>>

\* xRange / yRange of the earlier revision for one axis, computed in
\* getDerivedStateFromProps in plain arithmetic.
range_part_002(containerExtent, contentExtent) ==
    IF greaterThan(containerExtent, contentExtent)
    THEN <<Zero, sub(containerExtent, contentExtent)>>
    ELSE <<add(multiply(contentExtent, Int2Num(-1)), containerExtent), Zero>>

\* The range part of that getDerivedStateFromProps: the two ranges are
\* computed only when all four extents are truthy.
ranges_part_002(containerWidth, containerHeight, contentWidth, contentHeight) ==
    IF Truthy(containerWidth) /\ Truthy(containerHeight) /\ Truthy(contentWidth) /\ Truthy(contentHeight)
    THEN [computed |-> TRUE,
          xRange |-> range_part_002(containerWidth, contentWidth),
          yRange |-> range_part_002(containerHeight, contentHeight)]
    ELSE [computed |-> FALSE, xRange |-> <<>>, yRange |-> <<>>]

\* A variant of cappedEffectiveZoom without the cap.
uncappedEffectiveZoom(zoomRange, previousZoom, currentZoom) ==
    multiply(previousZoom, currentZoom)

cappedEffectiveZoom(zoomRange, previousZoom, currentZoom) ==
    cap(At(zoomRange, 0), At(zoomRange, 1), multiply(previousZoom, currentZoom))

\* The four nodes adjustedXMin .. adjustedYMax for a React state st and an
\* effective zoom.
adjustedBounds(st, zoom) ==
    LET containerWidth  == At(st.containerDimensions, 0)
        containerHeight == At(st.containerDimensions, 1)
        contentWidth    == At(st.contentDimensions, 0)
        contentHeight   == At(st.contentDimensions, 1)
    IN  [xMin |-> getAdjustedBounds(rangeMin(containerWidth, contentWidth), zoom, contentWidth, "sub"),
         xMax |-> getAdjustedBounds(rangeMax(containerWidth, contentWidth), zoom, contentWidth, "add"),
         yMin |-> getAdjustedBounds(rangeMin(containerHeight, contentHeight), zoom, contentHeight, "sub"),
         yMax |-> getAdjustedBounds(rangeMax(containerHeight, contentHeight), zoom, contentHeight, "add")]

----------------------------------------------------------------------------
\* The component: React state, props, render

\* A prop as the parent passes it: absent (undefined), an array, or some
\* other truthy value (which has no length).
Absent == [present |-> FALSE, isArray |-> FALSE, elems |-> <<>>]

Arr(elems) == [present |-> TRUE, isArray |-> TRUE, elems |-> elems]

NotAnArray == [present |-> TRUE, isArray |-> FALSE, elems |-> <<>>]

Pair(a, b) == <<Int2Num(a), Int2Num(b)>>

\* The class field `state`.
InitialState ==
    [containerDimensions |-> Pair(100, 100),
     contentDimensions   |-> Pair(20, 20),
     zoomRange           |-> <<Rat(1, 4), Int2Num(2)>>]

\* props.contentDimensions.length === 2, where reading .length of undefined throws.
LengthIsTwo(prop) == prop.isArray /\ Len(prop.elems) = 2

\* getDerivedStateFromProps(props): whether it threw, and the partial state
\* it returned (has: the keys of newState).
getDerivedStateFromProps(props) ==
    LET okContainer == /\ props.containerDimensions.present
                       /\ props.containerDimensions.isArray
                       /\ Len(props.containerDimensions.elems) = 2
        okContent   == /\ props.contentDimensions.present
                       /\ props.contentDimensions.isArray
                       /\ Len(props.contentDimensions.elems) = 2
        threw       == /\ props.zoomRange.present
                       /\ props.zoomRange.isArray
                       /\ ~props.contentDimensions.present
        okZoom      == /\ props.zoomRange.present
                       /\ props.zoomRange.isArray
                       /\ LengthIsTwo(props.contentDimensions)
    IN  [threw |-> threw,
         has   |-> [containerDimensions |-> okContainer,
                    contentDimensions   |-> okContent,
                    zoomRange           |-> okZoom],
         newState |-> [containerDimensions |-> props.containerDimensions.elems,
                       contentDimensions   |-> props.contentDimensions.elems,
                       zoomRange           |-> props.zoomRange.elems]]

\* A variant of MergeState that never takes the two dimensions.
MergeStateKeepsDimensions(prevState, derived) ==
    [k \in DOMAIN prevState |->
        IF k = "zoomRange" /\ derived.has[k] THEN derived.newState[k] ELSE prevState[k]]

\* React merges the partial state into the previous state.
MergeState(prevState, derived) ==
    [k \in DOMAIN prevState |-> IF derived.has[k] THEN derived.newState[k] ELSE prevState[k]]

\* The Values render constructs.
NewPreviousTransforms == [x |-> Zero, y |-> Zero, zoom |-> One]

NewCurrentTransforms == [x |-> Zero, y |-> Zero, zoom |-> One]

NewGestureStates == [pan |-> NotStarted, pinch |-> NotStarted]

\* One evaluation of the three nodes the children read, in the order of the
\* children's transform (animatedLeft, animatedTop, animatedZoom).  The runtime
\* caches each node once per evaluation, so cappedEffectiveZoom is computed
\* once, when animatedLeft needs it: from the zoom Values as the event left them.
\* (Each node value is bound once, as the element of a singleton set.)
EvaluateGraph(st, prev, cur, gs) ==
    CHOOSE out \in
        UNION { UNION {
            { [previous |-> [x |-> x.previous, y |-> y.previous, zoom |-> zoom.previous],
               current  |-> [x |-> x.current, y |-> y.current, zoom |-> zoom.current],
               adjusted |-> bounds,
               left     |-> x.result,
               top      |-> y.result,
               zoom     |-> zoom.result] :
              x \in {updateTranslation(prev.x, cur.x, gs.pan, <<bounds.xMin, bounds.xMax>>, "add", Zero)},
              y \in {updateTranslation(prev.y, cur.y, gs.pan, <<bounds.yMin, bounds.yMax>>, "add", Zero)},
              zoom \in {updateTranslation(prev.zoom, cur.zoom, gs.pinch, st.zoomRange, "multiply", One)} } :
            bounds \in {adjustedBounds(st, effective)} } :
            effective \in {cappedEffectiveZoom(st.zoomRange, prev.zoom, cur.zoom)} } : TRUE

----------------------------------------------------------------------------
\* Inputs

\* Pinch scales are 2^k for k in -MaxScaleExp .. MaxScaleExp.
MaxScaleExp == 1

RECURSIVE Pow2(_)
Pow2(k) == IF k = 0 THEN 1 ELSE 2 * Pow2(k - 1)

Scales == {IF k < 0 THEN Rat(1, Pow2(-k)) ELSE Rat(Pow2(k), 1) : k \in -MaxScaleExp .. MaxScaleExp}

\* The pan translation (translationX, translationY) of a gesture event: a
\* first pan by it stays inside the base range of the first mount below, a
\* second one leaves it (above on x, below on y).
PanDeltas == {Pair(60, -6)}

AllProps(container, content, zoomRange) ==
    [containerDimensions |-> container, contentDimensions |-> content, zoomRange |-> zoomRange]

\* The props a parent mounts the component with: a container larger than the
\* default content on x and smaller on y (base ranges [0, 100] and [-10, 0]),
\* and one that is smaller on x and equal on y ([-10, 0] and [0, 0]).
MountProps ==
    { AllProps(Arr(Pair(120, 10)), Absent, Absent),
      AllProps(Arr(Pair(10, 20)), Absent, Absent) }

\* The props of an update: those of a mount, a containerDimensions that is
\* not a pair, and a zoomRange passed without contentDimensions.
PropsSet ==
    MountProps \cup
    { AllProps(Arr(<<>>), Absent, Absent),
      AllProps(Absent, Absent, Arr(Pair(1, 2))) }

----------------------------------------------------------------------------
\* Operations.  The host delivers one event at a time; the event handler
\* writes its Values and the runtime then evaluates the nodes attached to the
\* children before the next event is taken, so a delivery and the evaluation it
\* causes are one step.

\* The nodes of a component that rendered nothing.
NoBounds == [xMin |-> NaN, xMax |-> NaN, yMin |-> NaN, yMax |-> NaN]

\* The graph evaluated on the Values prev, cur, gs: the Values and the node
\* caches it leaves.
Evaluated(st, prev, cur, gs) ==
    /\ gestureStates' = gs
    /\ \E out \in {EvaluateGraph(st, prev, cur, gs)} :
        /\ previousTransforms' = out.previous
        /\ currentTransforms' = out.current
        /\ adjusted' = out.adjusted
        /\ animatedLeft' = out.left
        /\ animatedTop' = out.top
        /\ animatedZoom' = out.zoom
        /\ UNCHANGED <<arguments, returned>>

\* constructor / first render with the props of the mount, and the first
\* evaluation of the rendered nodes.
Init ==
    \E props \in MountProps :
        \E derived \in {getDerivedStateFromProps(props)} :
        \E st \in {IF derived.threw THEN InitialState ELSE MergeState(InitialState, derived)} :
        \E out \in {EvaluateGraph(st, NewPreviousTransforms, NewCurrentTransforms, NewGestureStates)} :
            /\ mounted = ~derived.threw
            /\ state = st
            /\ previousTransforms = out.previous
            /\ currentTransforms = out.current
            /\ gestureStates = NewGestureStates
            /\ adjusted = IF derived.threw THEN NoBounds ELSE out.adjusted
            /\ animatedLeft = IF derived.threw THEN NaN ELSE out.left
            /\ animatedTop = IF derived.threw THEN NaN ELSE out.top
            /\ animatedZoom = IF derived.threw THEN NaN ELSE out.zoom
            /\ arguments = <<>>
            /\ returned = <<>>

\* The parent re-renders the component with props: getDerivedStateFromProps,
\* then render, which constructs the Values, the nodes and the event handlers
\* anew; the new nodes are evaluated when they are attached.  An exception
\* thrown while rendering unmounts the component: nothing is rendered, the
\* Values and nodes are gone (modelled as unevaluated nodes).
SetProps(props) ==
    /\ mounted
    /\ \E derived \in {getDerivedStateFromProps(props)} :
           IF derived.threw
           THEN /\ mounted' = FALSE
                /\ previousTransforms' = NewPreviousTransforms
                /\ currentTransforms' = NewCurrentTransforms
                /\ gestureStates' = NewGestureStates
                /\ adjusted' = NoBounds
                /\ animatedLeft' = NaN
                /\ animatedTop' = NaN
                /\ animatedZoom' = NaN
                /\ UNCHANGED <<state, arguments, returned>>
           ELSE /\ state' = MergeState(state, derived)
                /\ Evaluated(MergeState(state, derived), NewPreviousTransforms,
                             NewCurrentTransforms, NewGestureStates)
                /\ UNCHANGED mounted

\* onPanStateChange: nativeEvent.state -> gestureStates.pan
PanStateChange(newState) ==
    /\ mounted
    /\ Evaluated(state, previousTransforms, currentTransforms,
                 [gestureStates EXCEPT !.pan = newState])
    /\ UNCHANGED <<state, mounted>>

\* A variant of PanGestureEvent whose event map also writes translationX to
\* currentTransforms.zoom.
PanGestureEventWritesZoom(translation) ==
    /\ mounted
    /\ Evaluated(state, previousTransforms,
                 [currentTransforms EXCEPT !.x = translation[1], !.y = translation[2],
                                           !.zoom = translation[1]],
                 gestureStates)
    /\ UNCHANGED <<state, mounted>>

\* onPanGestureEvent: translationX, translationY -> currentTransforms.x, .y
PanGestureEvent(translation) ==
    /\ mounted
    /\ Evaluated(state, previousTransforms,
                 [currentTransforms EXCEPT !.x = translation[1], !.y = translation[2]],
                 gestureStates)
    /\ UNCHANGED <<state, mounted>>

\* onPinchStateChange: nativeEvent.state -> gestureStates.pinch
PinchStateChange(newState) ==
    /\ mounted
    /\ Evaluated(state, previousTransforms, currentTransforms,
                 [gestureStates EXCEPT !.pinch = newState])
    /\ UNCHANGED <<state, mounted>>

\* onPinchGestureEvent: scale -> currentTransforms.zoom
PinchGestureEvent(scale) ==
    /\ mounted
    /\ Evaluated(state, previousTransforms,
                 [currentTransforms EXCEPT !.zoom = scale], gestureStates)
    /\ UNCHANGED <<state, mounted>>

\* A further evaluation of the graph with no event in between (the set()
\* calls of an evaluation mark their Values as updated, which makes the
\* runtime evaluate the nodes once more).
Evaluate ==
    /\ mounted
    /\ Evaluated(state, previousTransforms, currentTransforms, gestureStates)
    /\ UNCHANGED <<state, mounted>>

Next ==
    \/ \E props \in PropsSet : SetProps(props)
    \/ \E newState \in HostStates : PanStateChange(newState)
    \/ \E translation \in PanDeltas : PanGestureEvent(translation)
    \/ \E newState \in HostStates : PinchStateChange(newState)
    \/ \E scale \in Scales : PinchGestureEvent(scale)
    \/ Evaluate

Spec == Init /\ [][Next]_vars

----------------------------------------------------------------------------
\* The component under a parent that updates every prop, with shapes that
\* are pairs and shapes that are not, and a host that reports only ACTIVE and
\* END and one pinch scale.

\* The props of an update: a new container, a new content, a zoomRange next
\* to a contentDimensions (a pair; three elements), arrays of a wrong length,
\* values that are no arrays, a zoomRange next to a contentDimensions of a
\* wrong length, and a zoomRange alone.
UpdateProps ==
    { AllProps(Arr(Pair(120, 10)), Absent, Absent),
      AllProps(Absent, Arr(Pair(40, 20)), Absent),
      AllProps(Absent, Arr(Pair(20, 20)), Arr(<<Rat(1, 2), Int2Num(2)>>)),
      AllProps(Absent, Arr(Pair(20, 20)), Arr(<<Rat(1, 2), One, Int2Num(2)>>)),
      AllProps(Arr(<<Int2Num(5)>>), Arr(<<>>), Absent),
      AllProps(NotAnArray, NotAnArray, NotAnArray),
      AllProps(Absent, Arr(<<>>), Arr(Pair(1, 4))),
      AllProps(Absent, Absent, Arr(Pair(1, 4))) }

ReportedStates == {StateACTIVE, StateEND}

ReportedScales == {Int2Num(2)}

NextProps ==
    \/ \E props \in UpdateProps : SetProps(props)
    \/ \E newState \in ReportedStates : PanStateChange(newState)
    \/ \E translation \in PanDeltas : PanGestureEvent(translation)
    \/ \E newState \in ReportedStates : PinchStateChange(newState)
    \/ \E scale \in ReportedScales : PinchGestureEvent(scale)
    \/ Evaluate

SpecProps == Init /\ [][NextProps]_vars

----------------------------------------------------------------------------
\* The earlier revision src/unnamed/part_002: the base ranges are part of the
\* React state, the adjusted bounds follow the zoom only while the pinch state
\* is END, and a gesture in flight is exposed through bounce.

\* The class field `state` of that revision.
InitialState_part_002 ==
    [containerDimensions |-> Pair(0, 0),
     contentDimensions   |-> Pair(0, 0),
     zoomRange           |-> <<Rat(1, 4), Int2Num(2)>>,
     xRange              |-> Pair(0, 100),
     yRange              |-> Pair(0, 200)]

\* getDerivedStateFromProps(props, state) of that revision, merged into the
\* previous state st: a dimension that is an array of 2 elements is taken,
\* and the ranges are computed from the new or previous dimensions.
getDerivedStateFromProps_part_002(props, st) ==
    CHOOSE merged \in
        UNION {
            { [containerDimensions |-> container,
               contentDimensions   |-> content,
               zoomRange           |-> st.zoomRange,
               xRange              |-> IF ranges.computed THEN ranges.xRange ELSE st.xRange,
               yRange              |-> IF ranges.computed THEN ranges.yRange ELSE st.yRange] :
              ranges \in {ranges_part_002(At(container, 0), At(container, 1),
                                          At(content, 0), At(content, 1))} } :
            container \in {IF LengthIsTwo(props.containerDimensions)
                           THEN props.containerDimensions.elems ELSE st.containerDimensions},
            content \in {IF LengthIsTwo(props.contentDimensions)
                         THEN props.contentDimensions.elems ELSE st.contentDimensions} } : TRUE

\* The four nodes adjustedXMin .. adjustedYMax of that revision: the adjusted
\* edge while the pinch state is END, and otherwise the Value the node was
\* built around, which holds the base edge it was constructed with.
adjustedBounds_part_002(st, pinchState, zoom) ==
    IF pinchState = StateEND
    THEN [xMin |-> getAdjustedBounds(At(st.xRange, 0), zoom, At(st.contentDimensions, 0), "sub"),
          xMax |-> getAdjustedBounds(At(st.xRange, 1), zoom, At(st.contentDimensions, 0), "add"),
          yMin |-> getAdjustedBounds(At(st.yRange, 0), zoom, At(st.contentDimensions, 1), "sub"),
          yMax |-> getAdjustedBounds(At(st.yRange, 1), zoom, At(st.contentDimensions, 1), "add")]
    ELSE [xMin |-> At(st.xRange, 0), xMax |-> At(st.xRange, 1),
          yMin |-> At(st.yRange, 0), yMax |-> At(st.yRange, 1)]

\* updateTranslation of that revision: the commit of the END branch is the
\* same, a gesture in flight is exposed through bounce.
updateTranslation_part_002(previousTranslation, currentTranslation, gestureState, boundaries, operation, defaultValue) ==
    IF gestureState = StateEND
    THEN LET committed == cap(At(boundaries, 0), At(boundaries, 1),
                              Apply(operation, previousTranslation, currentTranslation))
         IN  [previous |-> committed, current |-> defaultValue, result |-> committed]
    ELSE [previous |-> previousTranslation,
          current  |-> currentTranslation,
          result   |-> bounce(At(boundaries, 0), At(boundaries, 1),
                              Apply(operation, previousTranslation, currentTranslation))]

\* One evaluation of the three nodes the children read, as EvaluateGraph.
EvaluateGraph_part_002(st, prev, cur, gs) ==
    CHOOSE out \in
        UNION { UNION {
            { [previous |-> [x |-> x.previous, y |-> y.previous, zoom |-> zoom.previous],
               current  |-> [x |-> x.current, y |-> y.current, zoom |-> zoom.current],
               adjusted |-> bounds,
               left     |-> x.result,
               top      |-> y.result,
               zoom     |-> zoom.result] :
              x \in {updateTranslation_part_002(prev.x, cur.x, gs.pan, <<bounds.xMin, bounds.xMax>>, "add", Zero)},
              y \in {updateTranslation_part_002(prev.y, cur.y, gs.pan, <<bounds.yMin, bounds.yMax>>, "add", Zero)},
              zoom \in {updateTranslation_part_002(prev.zoom, cur.zoom, gs.pinch, st.zoomRange, "multiply", One)} } :
            bounds \in {adjustedBounds_part_002(st, gs.pinch, effective)} } :
            effective \in {cappedEffectiveZoom(st.zoomRange, prev.zoom, cur.zoom)} } : TRUE

Evaluated_part_002(st, prev, cur, gs) ==
    /\ gestureStates' = gs
    /\ \E out \in {EvaluateGraph_part_002(st, prev, cur, gs)} :
        /\ previousTransforms' = out.previous
        /\ currentTransforms' = out.current
        /\ adjusted' = out.adjusted
        /\ animatedLeft' = out.left
        /\ animatedTop' = out.top
        /\ animatedZoom' = out.zoom
        /\ UNCHANGED <<arguments, returned>>

\* The props of a mount of that revision: a container of [120, 10] or of
\* [20, 20] around a content of [20, 20] (ranges [0, 100] and [-10, 0], or
\* [0, 0] twice).
MountProps_part_002 ==
    { AllProps(Arr(Pair(120, 10)), Arr(Pair(20, 20)), Absent),
      AllProps(Arr(Pair(20, 20)), Arr(Pair(20, 20)), Absent) }

\* The props of an update: those of a mount and a containerDimensions that
\* is not a pair.
PropsSet_part_002 == MountProps_part_002 \cup {AllProps(Arr(<<>>), Absent, Absent)}

\* The gesture states the host reports to that revision.
HostStates_part_002 == {StateBEGAN, StateACTIVE, StateEND}

\* constructor (setupProperties) and first render with the props of the mount.
Init_part_002 ==
    \E props \in MountProps_part_002 :
        \E st \in {getDerivedStateFromProps_part_002(props, InitialState_part_002)} :
        \E out \in {EvaluateGraph_part_002(st, NewPreviousTransforms, NewCurrentTransforms, NewGestureStates)} :
            /\ mounted = TRUE
            /\ state = st
            /\ previousTransforms = out.previous
            /\ currentTransforms = out.current
            /\ gestureStates = NewGestureStates
            /\ adjusted = out.adjusted
            /\ animatedLeft = out.left
            /\ animatedTop = out.top
            /\ animatedZoom = out.zoom
            /\ arguments = <<>>
            /\ returned = <<>>

\* A re-render: getDerivedStateFromProps, then render, which calls
\* setupProperties and so constructs the Values and nodes anew.
SetProps_part_002(props) ==
    /\ mounted
    /\ \E st \in {getDerivedStateFromProps_part_002(props, state)} :
        /\ state' = st
        /\ Evaluated_part_002(st, NewPreviousTransforms, NewCurrentTransforms, NewGestureStates)
    /\ UNCHANGED mounted

PanStateChange_part_002(newState) ==
    /\ mounted
    /\ Evaluated_part_002(state, previousTransforms, currentTransforms,
                          [gestureStates EXCEPT !.pan = newState])
    /\ UNCHANGED <<state, mounted>>

PanGestureEvent_part_002(translation) ==
    /\ mounted
    /\ Evaluated_part_002(state, previousTransforms,
                          [currentTransforms EXCEPT !.x = translation[1], !.y = translation[2]],
                          gestureStates)
    /\ UNCHANGED <<state, mounted>>

PinchStateChange_part_002(newState) ==
    /\ mounted
    /\ Evaluated_part_002(state, previousTransforms, currentTransforms,
                          [gestureStates EXCEPT !.pinch = newState])
    /\ UNCHANGED <<state, mounted>>

PinchGestureEvent_part_002(scale) ==
    /\ mounted
    /\ Evaluated_part_002(state, previousTransforms,
                          [currentTransforms EXCEPT !.zoom = scale], gestureStates)
    /\ UNCHANGED <<state, mounted>>

Next_part_002 ==
    \/ \E props \in PropsSet_part_002 : SetProps_part_002(props)
    \/ \E newState \in HostStates_part_002 : PanStateChange_part_002(newState)
    \/ \E translation \in PanDeltas : PanGestureEvent_part_002(translation)
    \/ \E newState \in HostStates_part_002 : PinchStateChange_part_002(newState)
    \/ \E scale \in Scales : PinchGestureEvent_part_002(scale)

Spec_part_002 == Init_part_002 /\ [][Next_part_002]_vars

----------------------------------------------------------------------------
\* The helper functions called on their own, outside a component: the
\* arguments are drawn from bounded sets and one step makes the call.

MaxEdge == 2
MaxZoomQuarters == 8
MaxExtent == 3

\* Base range edges -20, -10 .. 20; zooms 1/4, 2/4 .. 2; extents 10, 20, 30.
Edges == {Int2Num(10 * k) : k \in -MaxEdge .. MaxEdge}
Zooms == {Rat(k, 4) : k \in 1 .. MaxZoomQuarters}
Extents == {Int2Num(10 * k) : k \in 1 .. MaxExtent}

\* Boundaries -2 .. 2 (ordered, equal and unordered pairs) and values
\* -4, -3.5 .. 4 and the two infinities for cap and bounce, with the pair
\* [0, 100] and values on both sides of it; extents 0, 10 .. 100 for the
\* derivation of the base ranges (heights 0, 10, 20 where four are needed).
MaxLimit == 2
MaxValueHalves == 8
MaxTens == 10
MaxHeightTens == 2

Infinity == <<1, 0>>

Limits == {Int2Num(k) : k \in -MaxLimit .. MaxLimit}
Values == {Rat(k, 2) : k \in -MaxValueHalves .. MaxValueHalves} \cup {Infinity, Neg(Infinity)}
Triples ==
    [minValue : Limits, maxValue : Limits, value : Values] \cup
    [minValue : {Zero}, maxValue : {Int2Num(100)}, value : {Int2Num(-50), Int2Num(50), Int2Num(150)}]
Widths == {Int2Num(10 * k) : k \in 0 .. MaxTens}
Heights == {Int2Num(10 * k) : k \in 0 .. MaxHeightTens}

\* The calls: the function and its arguments.
Calls ==
    [function : {"getAdjustedBounds"}, originalValue : Edges, zoom : Zooms,
     contentWidth : Extents, operation : {"sub", "add"}] \cup
    {[function |-> f, minValue |-> t.minValue, maxValue |-> t.maxValue, value |-> t.value] :
        f \in {"cap", "bounce"}, t \in Triples} \cup
    {[function |-> "bounce_part_001", minValue |-> t.minValue, maxValue |-> t.maxValue,
      value |-> t.value, operation |-> o] : t \in Triples, o \in {"add", "multiply"}} \cup
    [function : {"range"}, containerExtent : Widths, contentExtent : Widths] \cup
    [function : {"ranges_part_002"}, containerWidth : Widths, containerHeight : Heights,
     contentWidth : Widths, contentHeight : Heights]

NotCalled == <<>>

FunctionInit ==
    /\ mounted = FALSE
    /\ state = InitialState
    /\ previousTransforms = NewPreviousTransforms
    /\ currentTransforms = NewCurrentTransforms
    /\ gestureStates = NewGestureStates
    /\ adjusted = NoBounds
    /\ animatedLeft = NaN
    /\ animatedTop = NaN
    /\ animatedZoom = NaN
    /\ arguments \in Calls
    /\ returned = NotCalled

\* A call leaves everything but its result alone.
Returns(value) ==
    /\ returned = NotCalled
    /\ returned' = value
    /\ UNCHANGED <<state, mounted, previousTransforms, currentTransforms, gestureStates,
                   adjusted, animatedLeft, animatedTop, animatedZoom, arguments>>

CallGetAdjustedBounds ==
    /\ arguments.function = "getAdjustedBounds"
    /\ Returns(getAdjustedBounds(arguments.originalValue, arguments.zoom,
                                 arguments.contentWidth, arguments.operation))

CallCap ==
    /\ arguments.function = "cap"
    /\ Returns(cap(arguments.minValue, arguments.maxValue, arguments.value))

CallBounce ==
    /\ arguments.function = "bounce"
    /\ Returns(bounce(arguments.minValue, arguments.maxValue, arguments.value))

CallBounce_part_001 ==
    /\ arguments.function = "bounce_part_001"
    /\ Returns(bounce_part_001(arguments.minValue, arguments.maxValue, arguments.value,
                               arguments.operation))

\* xRangeMin and xRangeMax of render for one axis.
CallRange ==
    /\ arguments.function = "range"
    /\ Returns(<<rangeMin(arguments.containerExtent, arguments.contentExtent),
                 rangeMax(arguments.containerExtent, arguments.contentExtent)>>)

CallRanges_part_002 ==
    /\ arguments.function = "ranges_part_002"
    /\ Returns(ranges_part_002(arguments.containerWidth, arguments.containerHeight,
                               arguments.contentWidth, arguments.contentHeight))

FunctionNext ==
    \/ CallGetAdjustedBounds
    \/ CallCap
    \/ CallBounce
    \/ CallBounce_part_001
    \/ CallRange
    \/ CallRanges_part_002

SpecFunctions == FunctionInit /\ [][FunctionNext]_vars

----------------------------------------------------------------------------
\* Properties of the accumulators.
\*
\* A step of Spec is one delivery and the evaluation it causes, so the Values
\* "held before the evaluation" are those of the state before the step with
\* the payload of the delivered event written in: PanWritten, PinchWritten,
\* and the unchanged currentTransforms for a state change or a re-evaluation.

PanWritten(translation) ==
    [currentTransforms EXCEPT !.x = translation[1], !.y = translation[2]]

PinchWritten(scale) ==
    [currentTransforms EXCEPT !.zoom = scale]

\* The step is a state change of one of the recognizers, or a re-evaluation.
NoPayloadStep ==
    \/ \E newState \in HostStates : PanStateChange(newState)
    \/ \E newState \in HostStates : PinchStateChange(newState)
    \/ Evaluate

\* What an END evaluation that read the in-flight deltas cur has done.
PanCommitted(cur) ==
    /\ previousTransforms'.x =
           cap(adjusted'.xMin, adjusted'.xMax, add(previousTransforms.x, cur.x))
    /\ previousTransforms'.y =
           cap(adjusted'.yMin, adjusted'.yMax, add(previousTransforms.y, cur.y))
    /\ currentTransforms'.x = Zero
    /\ currentTransforms'.y = Zero
    /\ animatedLeft' = previousTransforms'.x
    /\ animatedTop' = previousTransforms'.y

PinchCommitted(cur) ==
    /\ previousTransforms'.zoom =
           cap(At(state.zoomRange, 0), At(state.zoomRange, 1),
               multiply(previousTransforms.zoom, cur.zoom))
    /\ currentTransforms'.zoom = One
    /\ animatedZoom' = previousTransforms'.zoom

EndCommitted(cur) ==
    /\ gestureStates'.pan = StateEND => PanCommitted(cur)
    /\ gestureStates'.pinch = StateEND => PinchCommitted(cur)

SomeEnd ==
    gestureStates'.pan = StateEND \/ gestureStates'.pinch = StateEND

\* C1: every evaluation in which a gesture state equals END sets previous to
\* clamp(min, max, op(previous, current)) of the values held before the
\* evaluation (addition for x and y within the adjusted bounds of that
\* evaluation, multiplication for zoom within zoomRange), sets current to the
\* neutral value (0 for x and y, 1 for zoom), and exposes the new previous.
C1_EndCommits ==
    [][ /\ \A translation \in PanDeltas :
              SomeEnd /\ PanGestureEvent(translation) => EndCommitted(PanWritten(translation))
        /\ \A scale \in Scales :
              SomeEnd /\ PinchGestureEvent(scale) => EndCommitted(PinchWritten(scale))
        /\ SomeEnd /\ NoPayloadStep => EndCommitted(currentTransforms) ]_vars

\* C1 witness: a pan of (60, -6) has been committed by an END evaluation, and
\* a pinch of 2 by another.
C1_Witness ==
    /\ gestureStates.pan = StateEND
    /\ gestureStates.pinch = StateEND
    /\ previousTransforms.x = Int2Num(60)
    /\ previousTransforms.y = Int2Num(-6)
    /\ previousTransforms.zoom = Int2Num(2)
    /\ currentTransforms = NewCurrentTransforms
    /\ animatedLeft = Int2Num(60)
    /\ animatedZoom = Int2Num(2)

\* What an evaluation outside END that read the in-flight deltas cur has left.
PanKept(cur) ==
    /\ previousTransforms'.x = previousTransforms.x
    /\ previousTransforms'.y = previousTransforms.y
    /\ currentTransforms'.x = cur.x
    /\ currentTransforms'.y = cur.y

PinchKept(cur) ==
    /\ previousTransforms'.zoom = previousTransforms.zoom
    /\ currentTransforms'.zoom = cur.zoom

NonEndKept(cur) ==
    /\ gestureStates'.pan # StateEND => PanKept(cur)
    /\ gestureStates'.pinch # StateEND => PinchKept(cur)

\* C2: an evaluation in a gesture state other than END (the initial -1, BEGAN,
\* ACTIVE, CANCELLED, FAILED) writes neither previous nor current: after it
\* previous is what it was and current is what the event handler wrote.
C2_NonEndWritesNothing ==
    [][ /\ \A translation \in PanDeltas :
              PanGestureEvent(translation) => NonEndKept(PanWritten(translation))
        /\ \A scale \in Scales :
              PinchGestureEvent(scale) => NonEndKept(PinchWritten(scale))
        /\ NoPayloadStep => NonEndKept(currentTransforms) ]_vars

\* C2 witness: both gestures are in flight with a delta on top of a committed
\* value, and nothing of the delta has been folded into previous.
C2_Witness ==
    /\ gestureStates.pan = StateACTIVE
    /\ gestureStates.pinch = StateBEGAN
    /\ previousTransforms.x = Int2Num(60)
    /\ currentTransforms.x = Int2Num(60)
    /\ previousTransforms.zoom = Int2Num(2)
    /\ currentTransforms.zoom = Rat(1, 2)

\* a <= value <= b
Within(a, b, value) == lessOrEq(a, value) /\ lessOrEq(value, b)

\* C3: overshoot is never committed: the previous an END evaluation wrote lies
\* within the [min, max] in force at that evaluation (the adjusted bounds for
\* x and y), and with an ordered zoomRange that contains 1 previous.zoom lies
\* within zoomRange in every state.
C3_OvershootNeverCommitted ==
    mounted =>
        /\ gestureStates.pan = StateEND =>
              /\ Within(adjusted.xMin, adjusted.xMax, previousTransforms.x)
              /\ Within(adjusted.yMin, adjusted.yMax, previousTransforms.y)
        /\ Within(At(state.zoomRange, 0), At(state.zoomRange, 1), One) =>
              Within(At(state.zoomRange, 0), At(state.zoomRange, 1), previousTransforms.zoom)

\* C4: in every state of a mounted component, whatever the gesture states, the
\* exposed zoom lies within zoomRange and the exposed left and top lie within
\* the adjusted bounds of their axis whenever that pair is ordered.
C4_ExposedWithinBoundaries ==
    mounted =>
        /\ Within(At(state.zoomRange, 0), At(state.zoomRange, 1), animatedZoom)
        /\ lessOrEq(adjusted.xMin, adjusted.xMax) =>
              Within(adjusted.xMin, adjusted.xMax, animatedLeft)
        /\ lessOrEq(adjusted.yMin, adjusted.yMax) =>
              Within(adjusted.yMin, adjusted.yMax, animatedTop)

\* C4 witness: both gestures are active with in-flight values beyond the
\* boundaries (x above its max, y below its min, zoom above zoomRange), and the
\* exposed values sit on the violated bounds.
C4_Witness ==
    /\ gestureStates.pan = StateACTIVE
    /\ gestureStates.pinch = StateACTIVE
    /\ lessThan(adjusted.xMin, adjusted.xMax)
    /\ lessThan(adjusted.yMin, adjusted.yMax)
    /\ greaterThan(add(previousTransforms.x, currentTransforms.x), adjusted.xMax)
    /\ lessThan(add(previousTransforms.y, currentTransforms.y), adjusted.yMin)
    /\ greaterThan(multiply(previousTransforms.zoom, currentTransforms.zoom), At(state.zoomRange, 1))
    /\ animatedLeft = adjusted.xMax
    /\ animatedTop = adjusted.yMin
    /\ animatedZoom = At(state.zoomRange, 1)

\* C5: sequential gestures compose: the END that completes a gesture leaves the
\* boundary as it was and commits clamp(min, max, committed op delta), where
\* committed is the value the previous END left and delta the last one of the
\* gesture; e.g. within [0, 100] two pans of 60 commit 60 and then 100.
C5_GesturesCompose ==
    [][ /\ gestureStates.pan # StateEND /\ PanStateChange(StateEND) =>
              /\ adjusted' = adjusted
              /\ previousTransforms'.x =
                    cap(adjusted.xMin, adjusted.xMax,
                        add(previousTransforms.x, currentTransforms.x))
              /\ previousTransforms'.y =
                    cap(adjusted.yMin, adjusted.yMax,
                        add(previousTransforms.y, currentTransforms.y))
        /\ gestureStates.pinch # StateEND /\ PinchStateChange(StateEND) =>
              previousTransforms'.zoom =
                    cap(At(state.zoomRange, 0), At(state.zoomRange, 1),
                        multiply(previousTransforms.zoom, currentTransforms.zoom)) ]_vars

\* C5 witness: within x in [0, 100] and y in [-10, 0], the second pan of
\* (60, -6) has ended: 100 and -10 are committed, not 120 and -12.
C5_Witness ==
    /\ gestureStates.pan = StateEND
    /\ adjusted = [xMin |-> Zero, xMax |-> Int2Num(100), yMin |-> Int2Num(-10), yMax |-> Zero]
    /\ previousTransforms.x = Int2Num(100)
    /\ previousTransforms.y = Int2Num(-10)

\* C6: when the gesture state is END and current is neutral, a further END
\* evaluation (END delivered again, or a re-evaluation) leaves the committed
\* previous as it is, for x, y and zoom.
C6_EndIdempotent ==
    [][ /\ ( /\ gestureStates.pan = StateEND
             /\ currentTransforms.x = Zero
             /\ currentTransforms.y = Zero
             /\ (PanStateChange(StateEND) \/ Evaluate) ) =>
              /\ previousTransforms'.x = previousTransforms.x
              /\ previousTransforms'.y = previousTransforms.y
        /\ ( /\ gestureStates.pinch = StateEND
             /\ currentTransforms.zoom = One
             /\ (PinchStateChange(StateEND) \/ Evaluate) ) =>
              previousTransforms'.zoom = previousTransforms.zoom ]_vars

\* C6 witness: both gestures have ended on a clamped value (x on its max, zoom
\* on the lower end of zoomRange) and current is neutral: the state in which a
\* further END evaluation takes place.
C6_Witness ==
    /\ gestureStates.pan = StateEND
    /\ gestureStates.pinch = StateEND
    /\ currentTransforms = NewCurrentTransforms
    /\ previousTransforms.x = adjusted.xMax
    /\ previousTransforms.x # Zero
    /\ previousTransforms.zoom = At(state.zoomRange, 0)

\* The terminal states the host reports for a gesture.
TerminalStates == {StateEND, StateCANCELLED, StateFAILED}

\* C7: a gesture the host terminates (reported as END, CANCELLED or FAILED) is
\* handled like a released one: the evaluation of the state change commits the
\* in-flight delta into previous through clamp and resets current.
C7_InterruptedCommits ==
    [][ \A newState \in TerminalStates :
            /\ PanStateChange(newState) =>
                  /\ previousTransforms'.x =
                        cap(adjusted'.xMin, adjusted'.xMax,
                            add(previousTransforms.x, currentTransforms.x))
                  /\ previousTransforms'.y =
                        cap(adjusted'.yMin, adjusted'.yMax,
                            add(previousTransforms.y, currentTransforms.y))
                  /\ currentTransforms'.x = Zero
                  /\ currentTransforms'.y = Zero
            /\ PinchStateChange(newState) =>
                  /\ previousTransforms'.zoom =
                        cap(At(state.zoomRange, 0), At(state.zoomRange, 1),
                            multiply(previousTransforms.zoom, currentTransforms.zoom))
                  /\ currentTransforms'.zoom = One ]_vars

\* C8: while a gesture is BEGAN or ACTIVE the exposed value of each axis is
\* bounce(min, max, op(previous, current)), the relative-overshoot easing.
C8_ExposedIsBounce ==
    mounted =>
        /\ gestureStates.pan \in {StateBEGAN, StateACTIVE} =>
              /\ animatedLeft = bounce(adjusted.xMin, adjusted.xMax,
                                       add(previousTransforms.x, currentTransforms.x))
              /\ animatedTop = bounce(adjusted.yMin, adjusted.yMax,
                                      add(previousTransforms.y, currentTransforms.y))
        /\ gestureStates.pinch \in {StateBEGAN, StateACTIVE} =>
              animatedZoom = bounce(At(state.zoomRange, 0), At(state.zoomRange, 1),
                                    multiply(previousTransforms.zoom, currentTransforms.zoom))

\* clamp(zoomRange[0], zoomRange[1], previous.zoom * current.zoom)
ClampedZoomProduct ==
    cap(At(state.zoomRange, 0), At(state.zoomRange, 1),
        multiply(previousTransforms.zoom, currentTransforms.zoom))

AdjustedEdge(base, zoom, extent, sign) ==
    Rat(2 * base[1] * zoom[2] * extent[2] + sign * (zoom[1] - zoom[2]) * extent[1] * base[2],
        2 * base[2] * zoom[2] * extent[2])

\* C10: getAdjustedBounds returns base + sign * (zoom - 1) * (extent / 2), sign
\* -1 for the operation sub and +1 for add; extent 20 and zoom 2 move a min edge
\* by -10 and a max edge by +10, and zoom 1 leaves the edge where it is.
C10_AdjustedEdge ==
    arguments.function = "getAdjustedBounds" /\ returned # NotCalled =>
        /\ returned = AdjustedEdge(arguments.originalValue, arguments.zoom, arguments.contentWidth,
                                   IF arguments.operation = "sub" THEN -1 ELSE 1)
        /\ arguments.zoom = Int2Num(2) /\ arguments.contentWidth = Int2Num(20) =>
              returned = Int2Num(arguments.originalValue[1] +
                                 (IF arguments.operation = "sub" THEN -10 ELSE 10))
        /\ arguments.zoom = One => returned = arguments.originalValue

\* C10 witness: the call with base 0, zoom 2, extent 20 for a min edge has
\* returned -10.
C10_Witness ==
    /\ arguments.function = "getAdjustedBounds"
    /\ arguments.originalValue = Zero
    /\ arguments.zoom = Int2Num(2)
    /\ arguments.contentWidth = Int2Num(20)
    /\ arguments.operation = "sub"
    /\ returned = Int2Num(-10)

----------------------------------------------------------------------------
\* Properties of the helper functions and of the base ranges.

\* [0, C - K] when C >= K and [C - K, 0] otherwise, for whole extents, in
\* integer arithmetic.
BaseRange(containerExtent, contentExtent) ==
    IF containerExtent[1] >= contentExtent[1]
    THEN <<Zero, Int2Num(containerExtent[1] - contentExtent[1])>>
    ELSE <<Int2Num(containerExtent[1] - contentExtent[1]), Zero>>

\* C11: the base range of an axis with container extent C and content extent
\* K is [0, C - K] when C >= K and [C - K, 0] when C < K, so min <= 0 <= max;
\* C = 100, K = 20 gives [0, 80] and C = 20, K = 100 gives [-80, 0].  (render
\* of src/src/PanPinch.js for every pair of extents; getDerivedStateFromProps
\* of the earlier revision whenever it computes the ranges.)
C11_BaseRange ==
    returned # NotCalled =>
        /\ arguments.function = "range" =>
              /\ returned = BaseRange(arguments.containerExtent, arguments.contentExtent)
              /\ returned[1][1] <= 0
              /\ returned[2][1] >= 0
              /\ arguments.containerExtent = Int2Num(100) /\ arguments.contentExtent = Int2Num(20) =>
                    returned = <<Zero, Int2Num(80)>>
              /\ arguments.containerExtent = Int2Num(20) /\ arguments.contentExtent = Int2Num(100) =>
                    returned = <<Int2Num(-80), Zero>>
        /\ arguments.function = "ranges_part_002" /\ returned.computed =>
              /\ returned.xRange = BaseRange(arguments.containerWidth, arguments.contentWidth)
              /\ returned.yRange = BaseRange(arguments.containerHeight, arguments.contentHeight)

\* C11 witness: the range for container 20 and content 100 has been derived.
C11_Witness ==
    /\ arguments.function = "range"
    /\ arguments.containerExtent = Int2Num(20)
    /\ arguments.contentExtent = Int2Num(100)
    /\ returned = <<Int2Num(-80), Zero>>

\* C12: in every reachable state the zoom-adjusted pan boundaries are ordered
\* on both axes, adjustedMin <= adjustedMax.
C12_BoundariesOrdered ==
    mounted /\ adjusted # NoBounds =>
        /\ lessOrEq(adjusted.xMin, adjusted.xMax)
        /\ lessOrEq(adjusted.yMin, adjusted.yMax)

----------------------------------------------------------------------------
\* Properties of the component under prop updates.

\* A prop that is an array of exactly 2 elements.
ValidPair(prop) == prop.present /\ prop.isArray /\ Len(prop.elems) = 2

\* The adjusted bounds for whole container and content extents and a zoom,
\* in integer arithmetic.
ExpectedBounds(container, content, zoom) ==
    [xMin |-> AdjustedEdge(BaseRange(container[1], content[1])[1], zoom, content[1], -1),
     xMax |-> AdjustedEdge(BaseRange(container[1], content[1])[2], zoom, content[1], 1),
     yMin |-> AdjustedEdge(BaseRange(container[2], content[2])[1], zoom, content[2], -1),
     yMax |-> AdjustedEdge(BaseRange(container[2], content[2])[2], zoom, content[2], 1)]

\* C13: a prop update with a valid containerDimensions or contentDimensions
\* pair puts that pair in force; no other step changes the dimensions; and
\* after every step the bounds x and y are clamped to are those derived from
\* the dimensions in force, with the exposed left and top inside them when
\* they are ordered.
C13_NewDimensionsInForce ==
    [][ /\ \A props \in UpdateProps :
              SetProps(props) /\ mounted' =>
                  /\ ValidPair(props.containerDimensions) =>
                        state'.containerDimensions = props.containerDimensions.elems
                  /\ ValidPair(props.contentDimensions) =>
                        state'.contentDimensions = props.contentDimensions.elems
        /\ \/ state'.containerDimensions = state.containerDimensions
              /\ state'.contentDimensions = state.contentDimensions
           \/ \E props \in UpdateProps :
                 (ValidPair(props.containerDimensions) \/ ValidPair(props.contentDimensions))
                 /\ SetProps(props)
        /\ mounted' =>
              /\ adjusted' = ExpectedBounds(state'.containerDimensions, state'.contentDimensions,
                                            ClampedZoomProduct')
              /\ lessOrEq(adjusted'.xMin, adjusted'.xMax) =>
                    Within(adjusted'.xMin, adjusted'.xMax, animatedLeft')
              /\ lessOrEq(adjusted'.yMin, adjusted'.yMax) =>
                    Within(adjusted'.yMin, adjusted'.yMax, animatedTop') ]_vars

\* C13 witness: after the content was updated to [40, 20] in a container of
\* [120, 10], a pan of 60 on top of a committed 60 is held at the new maximum
\* 80 (the old one was 100).
C13_Witness ==
    /\ state.containerDimensions = Pair(120, 10)
    /\ state.contentDimensions = Pair(40, 20)
    /\ gestureStates.pan = StateACTIVE
    /\ previousTransforms.x = Int2Num(60)
    /\ currentTransforms.x = Int2Num(60)
    /\ adjusted.xMax = Int2Num(80)
    /\ animatedLeft = Int2Num(80)

\* C14: a re-render of a mounted component does not recreate the Values: the
\* committed x, y and zoom after it equal those before it.
C14_RerenderKeepsCommitted ==
    [][ \A props \in UpdateProps :
            SetProps(props) /\ mounted' => previousTransforms' = previousTransforms ]_vars

\* C15: after any sequence of prop updates each of the state fields
\* containerDimensions, contentDimensions and zoomRange is an array of
\* exactly 2 elements: a supplied value of another shape is never stored.
C15_StateFieldsArePairs ==
    /\ Len(state.containerDimensions) = 2
    /\ Len(state.contentDimensions) = 2
    /\ Len(state.zoomRange) = 2

\* C16: getDerivedStateFromProps never throws, whatever combination of
\* present, absent and malformed props an update passes: the component is
\* mounted in every reachable state.
C16_ValidationNeverThrows == mounted = TRUE

----------------------------------------------------------------------------
\* Properties of cap and bounce.  Boundaries are whole numbers <<n, 1>> and
\* values are <<n, d>> with d >= 0 (d = 0: an infinity), compared here in
\* integer arithmetic.

\* value > limit
Above(value, limit) == value[1] > limit[1] * value[2]

\* value < limit
Below(value, limit) == value[1] < limit[1] * value[2]

\* C17: for min <= max and every value, cap(min, max, value) lies in
\* [min, max]: it is value when min <= value <= max, max when value > max and
\* min when value < min.
C17_CapClamps ==
    /\ arguments.function = "cap"
    /\ returned # NotCalled
    /\ arguments.minValue[1] <= arguments.maxValue[1]
    => /\ ~Below(returned, arguments.minValue)
       /\ ~Above(returned, arguments.maxValue)
       /\ returned = IF Above(arguments.value, arguments.maxValue) THEN arguments.maxValue
                     ELSE IF Below(arguments.value, arguments.minValue) THEN arguments.minValue
                     ELSE arguments.value

\* C17 witness: cap(-1, 1, 3/2) has returned 1.
C17_Witness ==
    /\ arguments.function = "cap"
    /\ arguments.minValue = Int2Num(-1)
    /\ arguments.maxValue = One
    /\ arguments.value = Rat(3, 2)
    /\ returned = One

\* C18: for min < max and min <= value <= max, both bounds included, bounce
\* returns value unchanged: the relative-overshoot bounce and the older one
\* with the power 1/1.3, for either operation.
C18_BounceIdentityInside ==
    /\ arguments.function \in {"bounce", "bounce_part_001"}
    /\ returned # NotCalled
    /\ arguments.minValue[1] < arguments.maxValue[1]
    /\ ~Below(arguments.value, arguments.minValue)
    /\ ~Above(arguments.value, arguments.maxValue)
    => returned = arguments.value

\* C18 witness: the relative-overshoot bounce has returned the upper bound
\* for a value on it, bounce(-1, 2, 2) = 2.
C18_Witness ==
    /\ arguments.function = "bounce"
    /\ arguments.minValue = Int2Num(-1)
    /\ arguments.maxValue = Int2Num(2)
    /\ arguments.value = Int2Num(2)
    /\ returned = Int2Num(2)

\* C19: for min < max the relative-overshoot bounce resists an overshoot
\* without stopping it: max < bounce < value for a finite value > max, and
\* value < bounce < min for a finite value < min; bounce(0, 100, 150) lies
\* strictly between 100 and 150.
C19_BounceResists ==
    /\ arguments.function = "bounce"
    /\ returned # NotCalled
    /\ arguments.minValue[1] < arguments.maxValue[1]
    /\ arguments.value[2] > 0
    => /\ Above(arguments.value, arguments.maxValue) =>
             /\ lessThan(arguments.maxValue, returned)
             /\ lessThan(returned, arguments.value)
       /\ Below(arguments.value, arguments.minValue) =>
             /\ lessThan(arguments.value, returned)
             /\ lessThan(returned, arguments.minValue)

\* C19 witness: bounce(0, 100, 150) has returned 100 * 1.5^0.25, which is
\* above 100 and below 150.
C19_Witness ==
    /\ arguments.function = "bounce"
    /\ arguments.minValue = Zero
    /\ arguments.maxValue = Int2Num(100)
    /\ arguments.value = Int2Num(150)
    /\ returned = <<0, 1, 100, 1, 3, 2>>
    /\ lessThan(Int2Num(100), returned)
    /\ lessThan(returned, Int2Num(150))

\* C20: with a zero-width boundary, min = max, bounce returns a finite number
\* for every finite value, the one an always-clamping boundary gives: min.
C20_ZeroWidthClamps ==
    /\ arguments.function = "bounce"
    /\ returned # NotCalled
    /\ arguments.minValue = arguments.maxValue
    /\ arguments.value[2] > 0
    => /\ IsRat(returned)
       /\ returned = arguments.minValue

\* C21: with min > max, against the caller contract, cap(min, max, value)
\* still returns a number, and for every value it is one of the two bounds.
C21_CapUnorderedReturnsBound ==
    /\ arguments.function = "cap"
    /\ returned # NotCalled
    /\ arguments.minValue[1] > arguments.maxValue[1]
    => /\ IsRat(returned)
       /\ returned \in {arguments.minValue, arguments.maxValue}

\* C21 witness: cap(1, -1, 0), whose value lies between the swapped bounds,
\* has returned the bound -1.
C21_Witness ==
    /\ arguments.function = "cap"
    /\ arguments.minValue = One
    /\ arguments.maxValue = Int2Num(-1)
    /\ arguments.value = Zero
    /\ returned = Int2Num(-1)

----------------------------------------------------------------------------
\* Properties of the earlier revision src/unnamed/part_002.

\* C22: in the revision part_002, a step of a rendered component that leaves
\* the pinch state other than END leaves each adjusted edge at its previous
\* value: the bounds computed at the most recent pinch end stay in force, also
\* after a new pinch has begun.
C22_BoundsKeptOutsideEnd ==
    [][ /\ gestureStates'.pinch # StateEND
        /\ ~(\E props \in PropsSet_part_002 : SetProps_part_002(props))
        => adjusted' = adjusted ]_vars

----------------------------------------------------------------------------
\* Properties of the evaluation order and of the commit in src/src/PanPinch.js.

\* C23: the pinch commit does not move the pan boundaries: for an ordered
\* zoomRange, the END evaluation that commits previous.zoom and resets
\* current.zoom to 1 leaves clamp(zoomRange, previous.zoom * current.zoom) as
\* it was, and the adjusted x and y bounds are the same before and after the
\* commit.  (The step that takes the pinch state to END is that evaluation.)
C23_PinchCommitKeepsBounds ==
    [][ /\ gestureStates.pinch # StateEND
        /\ gestureStates'.pinch = StateEND
        /\ lessOrEq(At(state.zoomRange, 0), At(state.zoomRange, 1))
        => /\ currentTransforms'.zoom = One
           /\ ClampedZoomProduct' = ClampedZoomProduct
           /\ adjusted' = adjusted ]_vars

\* C23 witness: a pinch of scale 2 on top of a committed 2 has ended in the
\* container of width 120: zoom 2 is committed, current is 1 again and the x
\* bounds are [-10, 110] as they were during the pinch.
C23_Witness ==
    /\ gestureStates.pinch = StateEND
    /\ previousTransforms.zoom = Int2Num(2)
    /\ currentTransforms.zoom = One
    /\ state.containerDimensions = Pair(120, 10)
    /\ adjusted.xMin = Int2Num(-10)
    /\ adjusted.xMax = Int2Num(110)

\* C24: while the pan state stays END every evaluation clamps previous.x and
\* previous.y again, to the adjusted bounds of the effective zoom of that
\* evaluation: each step that is not a pan gesture event leaves
\* clamp(bounds, previous + current), and after every step the committed pan
\* lies within each ordered pair of bounds, e.g. after a pinch shrank them.
C24_EndReclamps ==
    [][ gestureStates.pan = StateEND /\ gestureStates'.pan = StateEND
        => /\ lessOrEq(adjusted'.xMin, adjusted'.xMax) =>
                 Within(adjusted'.xMin, adjusted'.xMax, previousTransforms'.x)
           /\ lessOrEq(adjusted'.yMin, adjusted'.yMax) =>
                 Within(adjusted'.yMin, adjusted'.yMax, previousTransforms'.y)
           /\ ~(\E translation \in PanDeltas : PanGestureEvent(translation)) =>
                 /\ previousTransforms'.x =
                       cap(adjusted'.xMin, adjusted'.xMax,
                           add(previousTransforms.x, currentTransforms.x))
                 /\ previousTransforms'.y =
                       cap(adjusted'.yMin, adjusted'.yMax,
                           add(previousTransforms.y, currentTransforms.y)) ]_vars

\* C24 witness: with the pan ended at x = 0 in the container of width 120, a
\* pinch of scale 1/2 is in flight, which shrinks the x bounds from [0, 100] to
\* [5, 95]; the committed x has been moved to 5.
C24_Witness ==
    /\ gestureStates.pan = StateEND
    /\ state.containerDimensions = Pair(120, 10)
    /\ previousTransforms.zoom = One
    /\ currentTransforms.zoom = Rat(1, 2)
    /\ adjusted.xMin = Int2Num(5)
    /\ adjusted.xMax = Int2Num(95)
    /\ previousTransforms.x = Int2Num(5)

\* The zoom part of the state: the two zoom Values, the pinch state and the
\* exposed zoom.
ZoomView ==
    <<previousTransforms.zoom, currentTransforms.zoom, gestureStates.pinch, animatedZoom>>

\* The zoom part after an evaluation with current.zoom = currentZoom and pinch
\* state pinchState, computed from the zoom part alone.
ZoomAfter(currentZoom, pinchState) ==
    LET zoom == updateTranslation(previousTransforms.zoom, currentZoom, pinchState,
                                  state.zoomRange, "multiply", One)
    IN  <<zoom.previous, zoom.current, pinchState, zoom.result>>

\* C25: zoom does not depend on panning: a pan event (state change or
\* translation) never changes previous.zoom, current.zoom or the exposed zoom,
\* and what a pinch event makes of them is determined by the zoom part of the
\* state and the event alone, whatever pan events came in between.
C25_ZoomIndependentOfPan ==
    [][ /\ ZoomView' # ZoomView =>
              /\ ~(\E newState \in HostStates : PanStateChange(newState))
              /\ ~(\E translation \in PanDeltas : PanGestureEvent(translation))
        /\ \A scale \in Scales :
              \/ ZoomView' = ZoomAfter(scale, gestureStates.pinch)
              \/ ~PinchGestureEvent(scale)
        /\ \A newState \in HostStates :
              \/ ZoomView' = ZoomAfter(currentTransforms.zoom, newState)
              \/ ~PinchStateChange(newState) ]_vars

\* C25 witness: a pan is in flight on top of a committed pan while a pinch of
\* scale 2 is in flight: the exposed zoom is 2.
C25_Witness ==
    /\ gestureStates.pan = StateACTIVE
    /\ gestureStates.pinch = StateACTIVE
    /\ previousTransforms.x = Int2Num(60)
    /\ currentTransforms.x = Int2Num(60)
    /\ previousTransforms.zoom = One
    /\ currentTransforms.zoom = Int2Num(2)
    /\ animatedZoom = Int2Num(2)

\* C26: with unchanged boundaries the exposed value does not jump at release
\* or at touch-down: the evaluation that takes a gesture state to END exposes
\* what the evaluation before it exposed, and the step from END to BEGAN, with
\* current still neutral, exposes the committed previous.
C26_NoJumpAtReleaseOrTouchDown ==
    [][ /\ gestureStates.pan # StateEND /\ gestureStates'.pan = StateEND /\ adjusted' = adjusted =>
              /\ animatedLeft' = animatedLeft
              /\ animatedTop' = animatedTop
        /\ gestureStates.pinch # StateEND /\ gestureStates'.pinch = StateEND =>
              animatedZoom' = animatedZoom
        /\ gestureStates.pan = StateEND /\ gestureStates'.pan = StateBEGAN /\ adjusted' = adjusted =>
              /\ currentTransforms'.x = Zero /\ currentTransforms'.y = Zero
              /\ animatedLeft' = previousTransforms'.x /\ animatedLeft' = animatedLeft
              /\ animatedTop' = previousTransforms'.y /\ animatedTop' = animatedTop
        /\ gestureStates.pinch = StateEND /\ gestureStates'.pinch = StateBEGAN =>
              /\ currentTransforms'.zoom = One
              /\ animatedZoom' = previousTransforms'.zoom /\ animatedZoom' = animatedZoom ]_vars

\* C26 witness: the next pan has begun after one that ended beyond the bounds
\* [0, 100] and [-10, 0]: current is neutral and the committed 100 and -10 are
\* exposed.
C26_Witness ==
    /\ gestureStates.pan = StateBEGAN
    /\ adjusted.xMax = Int2Num(100)
    /\ adjusted.yMin = Int2Num(-10)
    /\ previousTransforms.x = Int2Num(100)
    /\ previousTransforms.y = Int2Num(-10)
    /\ currentTransforms.x = Zero
    /\ currentTransforms.y = Zero
    /\ animatedLeft = Int2Num(100)
    /\ animatedTop = Int2Num(-10)

\* C27: the commit is taken on the level of the gesture state: after every
\* evaluation with the state at END current is neutral, and a gesture event
\* delivered while the state is still END is folded into previous by the
\* evaluation it causes: clamp(bounds, previous + translation) for a pan,
\* clamp(zoomRange, previous.zoom * scale) for a pinch.
C27_CommitOnLevel ==
    [][ /\ gestureStates'.pan = StateEND =>
              currentTransforms'.x = Zero /\ currentTransforms'.y = Zero
        /\ gestureStates'.pinch = StateEND => currentTransforms'.zoom = One
        /\ gestureStates.pan = StateEND =>
              \A translation \in PanDeltas :
                  \/ /\ previousTransforms'.x =
                           cap(adjusted'.xMin, adjusted'.xMax,
                               add(previousTransforms.x, translation[1]))
                     /\ previousTransforms'.y =
                           cap(adjusted'.yMin, adjusted'.yMax,
                               add(previousTransforms.y, translation[2]))
                  \/ ~PanGestureEvent(translation)
        /\ gestureStates.pinch = StateEND =>
              \A scale \in Scales :
                  \/ previousTransforms'.zoom =
                        cap(At(state.zoomRange, 0), At(state.zoomRange, 1),
                            multiply(previousTransforms.zoom, scale))
                  \/ ~PinchGestureEvent(scale) ]_vars

\* C27 witness: with the pan state at END and no pinch ever started, 100 and
\* -10 are committed within [0, 100] and [-10, 0] and current is neutral.
C27_Witness ==
    /\ gestureStates.pan = StateEND
    /\ gestureStates.pinch = NotStarted
    /\ previousTransforms.x = Int2Num(100)
    /\ previousTransforms.y = Int2Num(-10)
    /\ currentTransforms.x = Zero
    /\ currentTransforms.y = Zero
    /\ animatedLeft = Int2Num(100)

----------------------------------------------------------------------------
\* The two derivations of the base ranges.

\* C28: for positive container and content extents the ranges that
\* getDerivedStateFromProps of the revision part_002 computes (container >
\* content) are the ranges that render of src/src/PanPinch.js computes
\* (container >= content), on both axes; equal extents give [0, 0] in both.
C28_RangeDerivationsAgree ==
    /\ arguments.function = "ranges_part_002"
    /\ returned # NotCalled
    /\ arguments.containerWidth[1] > 0 /\ arguments.containerHeight[1] > 0
    /\ arguments.contentWidth[1] > 0 /\ arguments.contentHeight[1] > 0
    => /\ returned.computed
       /\ returned.xRange = <<rangeMin(arguments.containerWidth, arguments.contentWidth),
                              rangeMax(arguments.containerWidth, arguments.contentWidth)>>
       /\ returned.yRange = <<rangeMin(arguments.containerHeight, arguments.contentHeight),
                              rangeMax(arguments.containerHeight, arguments.contentHeight)>>
       /\ arguments.containerWidth = arguments.contentWidth => returned.xRange = <<Zero, Zero>>
       /\ arguments.containerHeight = arguments.contentHeight => returned.yRange = <<Zero, Zero>>

\* C28 witness: the earlier revision has computed the ranges for a container
\* of [20, 10] around a content of [20, 20]: [0, 0] and [-10, 0].
C28_Witness ==
    /\ arguments.function = "ranges_part_002"
    /\ arguments.containerWidth = Int2Num(20)
    /\ arguments.contentWidth = Int2Num(20)
    /\ arguments.containerHeight = Int2Num(10)
    /\ arguments.contentHeight = Int2Num(20)
    /\ returned # NotCalled
    /\ returned.xRange = <<Zero, Zero>>
    /\ returned.yRange = <<Int2Num(-10), Zero>>

====
